---------------------------- MODULE Spec2Model ----------------------------
(***************************************************************************)
(* Model of the automation core of agency-manager:                         *)
(*   - utils/workflow_engine.py   (WorkflowEngine, Workflow)               *)
(*   - utils/notification_manager.py (the reminder scan)                   *)
(*   - utils/notification_rules.py   (the default notification rules)      *)
(***************************************************************************)
EXTENDS Integers, Sequences, FiniteSets, TLC

VARIABLES
    workflows,        \* WorkflowEngine.workflows: list of Workflow objects
    engine_actions,   \* WorkflowEngine.actions: action type -> handler
    ret,              \* the return (or raise) of the engine call just made
    now,              \* datetime.now(), in hours
    tasks,            \* rows of the tasks table: id -> row
    sent,             \* rows of the notifications table, in insert order
    last_scan,        \* rows the reminder scan just made, -1 if none just ran
    rule_enabled,     \* NotificationRule.default_enabled of each default rule
    notify_ret,       \* the return of the check_and_notify call just made
    events,           \* rows of the calendar_events table, in insert order
    checker_db,       \* EventConflictChecker.db: the object it was built with
    cal_ret,          \* the return (or raise) of the checker call just made
    builder,          \* the fields of the WorkflowBuilder in use
    build_ret,        \* the return (or raise) of the build call just made
    op_ret,           \* the return of the handler, sync or session call just made
    procs,            \* the position of each concurrent caller in its call
    project_progress, \* projects.progress of the project the tasks belong to
    sessions          \* SessionManager.sessions: token -> session

vars == <<workflows, engine_actions, ret, now, tasks, sent, last_scan,
          rule_enabled, notify_ret, events, checker_db, cal_ret,
          builder, build_ret, op_ret, procs, project_progress,
          sessions>>

engineVars == <<workflows, engine_actions, ret>>
reminderVars == <<now, tasks, sent, last_scan>>
notifyVars == <<rule_enabled, notify_ret>>
calendarVars == <<events, checker_db, cal_ret>>
builderVars == <<builder, build_ret>>

\* no handler, sync or session call was just made
NoOp == [ op |-> "none" ]

\* callers that can run at the same time, and one that is not in a call
ProcIds == { 1, 2 }
IdleProc == [ pc |-> "idle" ]

\* what an operation of another subsystem leaves of these
OthersIdle ==
    /\ op_ret' = NoOp
    /\ UNCHANGED <<procs, project_progress, sessions>>

(***************************************************************************)
(* Bounds of the model.                                                    *)
(***************************************************************************)
MaxWorkflows == 2     \* workflows registered in the dispatch specification
MaxActions == 3       \* actions of one workflow in the execute specification
MaxTasks == 2         \* rows of the tasks table
MaxTicks == 6         \* half days of simulated time
MaxNotifications == 3 \* rows of the notifications table
MaxEvents == 2        \* rows of the calendar_events table before a call

(***************************************************************************)
(* Python values and dictionaries.                                         *)
(***************************************************************************)
\* A value of a context key: missing from the dict, None, or an int.
Missing == [kind |-> "missing", val |-> 0]
PyNone == [kind |-> "None", val |-> 0]
PyInt(n) == [kind |-> "int", val |-> n]

\* dict.get(key, default) with an int default
DictGet(context, key, default) ==
    IF context[key].kind = "missing" THEN PyInt(default) ELSE context[key]

ContextInputs ==
    { [progress |-> v] : v \in {Missing, PyNone, PyInt(100)} }

(***************************************************************************)
(* utils/notification_rules.py: the default rules and check_and_notify.    *)
(***************************************************************************)
NotificationEventType ==
    { "task_due", "task_overdue", "payment_due", "payment_overdue",
      "new_inquiry", "quotation_approved", "contract_signed",
      "project_milestone", "ai_usage_limit" }

\* the event_type of each entry of DEFAULT_RULES, in list order
DEFAULT_RULES ==
    << "task_due", "task_overdue", "payment_due", "payment_overdue",
       "new_inquiry", "quotation_approved", "contract_signed",
       "project_milestone", "ai_usage_limit" >>

\* A context of a notification event.  status and client_signature are
\* strings, "<missing>" when the key is absent and "<None>" when it is None;
\* due_date (in hours), progress and monthly_cost are numbers or absent.
NoStatus == "<missing>"
NoSignature == "<missing>"
NoneSignature == "<None>"

NotifyContext(status, due_date, client_signature, progress, monthly_cost) ==
    [ status |-> status, due_date |-> due_date,
      client_signature |-> client_signature,
      progress |-> progress, monthly_cost |-> monthly_cost ]

\* the handler lambdas of DEFAULT_RULES, by the truth value of their result
MilestoneHandler(ctx) ==
    DictGet(ctx, "progress", 0).val \in {25, 50, 75, 100}

UsageLimitHandler_Strict(ctx) ==
    DictGet(ctx, "monthly_cost", 0).val > 50

UsageLimitHandler(ctx) ==
    DictGet(ctx, "monthly_cost", 0).val >= 50

RuleHandler(event_type, ctx) ==
    CASE event_type = "task_due" -> ctx.status # "done"
      [] event_type = "task_overdue" ->
            /\ ctx.due_date.kind # "missing"
            /\ ctx.status \notin {"done", "completed"}
      [] event_type = "payment_due" -> ctx.status = "pending"
      [] event_type = "payment_overdue" -> ctx.status = "pending"
      [] event_type = "new_inquiry" -> ctx.status = "new"
      [] event_type = "quotation_approved" -> ctx.status = "approved"
      [] event_type = "contract_signed" ->
            ctx.client_signature \notin {NoSignature, NoneSignature}
      [] event_type = "project_milestone" -> MilestoneHandler(ctx)
      [] event_type = "ai_usage_limit" -> UsageLimitHandler(ctx)

\* get_rule: the first rule of DEFAULT_RULES with that event type, or None
NoRule == "None"
get_rule(event_type) ==
    IF \E n \in 1..Len(DEFAULT_RULES) : DEFAULT_RULES[n] = event_type
    THEN event_type ELSE NoRule

\* NotificationRule.should_notify (every default rule has a handler)
should_notify(rule, ctx) == RuleHandler(rule, ctx)

\* the test "if not rule or not rule.default_enabled"
RuleUsable_IgnoresEnabled(rule, enabled) ==
    rule # NoRule

RuleUsable(rule, enabled) ==
    rule # NoRule /\ enabled[rule]

\* check_and_notify: the value returned and the notifications it sends
check_and_notify(event_type, ctx, enabled) ==
    LET rule == get_rule(event_type)
    IN  IF ~RuleUsable(rule, enabled)
        THEN [returned |-> FALSE, sent |-> <<>>]
        ELSE IF should_notify(rule, ctx)
        THEN [returned |-> TRUE,
              sent |-> << [recipient_type |-> "admin",
                           notification_type |-> event_type] >>]
        ELSE [returned |-> FALSE, sent |-> <<>>]

NoNotifyContext == NotifyContext(NoStatus, Missing, NoSignature, Missing, Missing)

NoNotifyCall ==
    [ called |-> FALSE, event_type |-> "none", context |-> NoNotifyContext,
      returned |-> FALSE, sent |-> <<>> ]

(***************************************************************************)
(* utils/calendar_manager.py: EventConflictChecker.                        *)
(***************************************************************************)
\* A stored timestamp 'YYYY-MM-DD HH:MM:SS', by its day number, hour and
\* minute; NoStamp is the value None.
Stamp(day, hour, minute) == [day |-> day, hour |-> hour, minute |-> minute]
NoStamp == [day |-> -1, hour |-> 0, minute |-> 0]

HoursPerDay == 24
MinutesPerHour == 60
\* datetime.fromisoformat, as the minutes since the start of day 0
fromisoformat(stamp) ==
    (stamp.day * HoursPerDay + stamp.hour) * MinutesPerHour + stamp.minute

\* a row of calendar_events; the id is the row's position in the table
EventRow(id, start_date, end_date, all_day) ==
    [ id |-> id, start_date |-> start_date, end_date |-> end_date,
      all_day |-> all_day ]

RemoveAt(rows, i) ==
    [ n \in 1..(Len(rows) - 1) |-> IF n < i THEN rows[n] ELSE rows[n + 1] ]

\* ORDER BY start_date, rows with equal start dates in rowid order
RECURSIVE OrderByStart(_)
OrderByStart(rows) ==
    IF rows = <<>> THEN <<>>
    ELSE LET first == CHOOSE i \in 1..Len(rows) :
                 \A j \in 1..Len(rows) :
                    \/ fromisoformat(rows[i].start_date) < fromisoformat(rows[j].start_date)
                    \/ /\ rows[i].start_date = rows[j].start_date
                       /\ rows[i].id <= rows[j].id
         IN  <<rows[first]>> \o OrderByStart(RemoveAt(rows, first))

\* CalendarDB.get_all_events() with no date range
get_all_events(rows) == OrderByStart(rows)

KeepOnDate(rows, date) ==
    LET OnDate(row) == row.start_date.day = date
    IN  SelectSeq(rows, OnDate)

\* CalendarManager.get_events_by_date: start_date between 'date 00:00:00'
\* and 'date 23:59:59'
get_events_by_date(rows, date) == OrderByStart(KeepOnDate(rows, date))

\* the methods the two classes a checker can be built over provide
DbKinds == { "CalendarDB", "CalendarManager" }
HasMethod(db, method) ==
    \/ db = "CalendarDB" /\ method = "get_all_events"
    \/ db = "CalendarManager" /\ method = "get_events_by_date"

CalendarRaised(error) ==
    [ outcome |-> "raised", error |-> error, result |-> <<>> ]
CalendarReturned(result) ==
    [ outcome |-> "returned", error |-> "none", result |-> result ]

\* exclude_event_id = None
NoExclude == 0

\* event_end = fromisoformat(end_date) if event.get('end_date') else event_start
EventEnd_AllDayIsPoint(event) ==
    IF event.end_date # NoStamp /\ ~event.all_day
    THEN fromisoformat(event.end_date)
    ELSE fromisoformat(event.start_date)

EventEnd(event) ==
    IF event.end_date # NoStamp
    THEN fromisoformat(event.end_date)
    ELSE fromisoformat(event.start_date)

\* if not (end < event_start or start > event_end)
Overlaps_HalfOpen(start, end, event_start, event_end) ==
    ~(end <= event_start \/ start > event_end)

Overlaps(start, end, event_start, event_end) ==
    ~(end < event_start \/ start > event_end)

\* if exclude_event_id and event['id'] == exclude_event_id: continue
Excluded_Never(event, exclude_event_id) ==
    FALSE

Excluded(event, exclude_event_id) ==
    exclude_event_id # NoExclude /\ event.id = exclude_event_id

\* the loop of check_conflict over the fetched rows, from row n on
RECURSIVE ConflictLoop(_, _, _, _, _, _)
ConflictLoop(fetched, n, start, end, exclude_event_id, conflicts) ==
    IF n > Len(fetched) THEN conflicts
    ELSE LET event == fetched[n]
             keep ==
                /\ ~Excluded(event, exclude_event_id)
                /\ event.start_date # NoStamp
                /\ Overlaps(start, end, fromisoformat(event.start_date),
                            EventEnd(event))
         IN  ConflictLoop(fetched, n + 1, start, end, exclude_event_id,
                          IF keep THEN Append(conflicts, event) ELSE conflicts)

check_conflict(db, rows, start_date, end_date, exclude_event_id) ==
    IF ~HasMethod(db, "get_all_events") THEN CalendarRaised("AttributeError")
    ELSE LET start == fromisoformat(start_date)
             end == IF end_date # NoStamp THEN fromisoformat(end_date) ELSE start
         IN  CalendarReturned(
                ConflictLoop(get_all_events(rows), 1, start, end,
                             exclude_event_id, <<>>))

\* the half-hour grid: for hour in range(work_start, work_end),
\* for minute in [0, 30]
SlotMinutes == 30
SlotGrid(date, work_start, work_end) ==
    [ n \in 1..(2 * (work_end - work_start)) |->
        Stamp(date, work_start + ((n - 1) \div 2), SlotMinutes * ((n - 1) % 2)) ]

\* if slot_time < event_end and slot_end > event_start
SlotTouched_StartInside(slot_time, event_start, event_end) ==
    slot_time < event_end /\ slot_time >= event_start

SlotTouched(slot_time, event_start, event_end) ==
    slot_time < event_end /\ slot_time + SlotMinutes > event_start

\* fromisoformat(event.get('end_date', event['start_date'])): the row has
\* the key end_date, so a None end date reaches fromisoformat
ParseRaises(fetched) ==
    \E n \in 1..Len(fetched) :
        ~fetched[n].all_day /\ fetched[n].end_date = NoStamp

\* slot['available'] after the marking loop: no event that is not all-day
\* touches the cell
SlotAvailable(slot, fetched) ==
    ~\E n \in 1..Len(fetched) :
        /\ ~fetched[n].all_day
        /\ SlotTouched(fromisoformat(slot), fromisoformat(fetched[n].start_date),
                       fromisoformat(fetched[n].end_date))

\* slot_duration >= duration_minutes: available_slots.append(current_slot_start)
RunLongEnough(run_minutes, duration_minutes) ==
    run_minutes >= duration_minutes

CloseRun(slots, current, run_end, duration_minutes, found) ==
    IF RunLongEnough(run_end - fromisoformat(slots[current]), duration_minutes)
    THEN Append(found, slots[current])
    ELSE found

\* the grouping loop from cell n on; current is the index of
\* current_slot_start, 0 for None
RECURSIVE GroupLoop(_, _, _, _, _, _)
GroupLoop(slots, fetched, n, current, duration_minutes, found) ==
    IF n > Len(slots)
    THEN IF current # 0
         THEN CloseRun(slots, current,
                       fromisoformat(slots[Len(slots)]) + SlotMinutes,
                       duration_minutes, found)
         ELSE found
    ELSE IF SlotAvailable(slots[n], fetched)
    THEN GroupLoop(slots, fetched, n + 1, IF current = 0 THEN n ELSE current,
                   duration_minutes, found)
    ELSE GroupLoop(slots, fetched, n + 1, 0, duration_minutes,
                   IF current # 0
                   THEN CloseRun(slots, current, fromisoformat(slots[n]),
                                 duration_minutes, found)
                   ELSE found)

find_available_slots(db, rows, date, duration_minutes, work_start, work_end) ==
    IF ~HasMethod(db, "get_events_by_date") THEN CalendarRaised("AttributeError")
    ELSE LET fetched == get_events_by_date(rows, date)
         IN  IF ParseRaises(fetched) THEN CalendarRaised("TypeError")
             ELSE CalendarReturned(
                    GroupLoop(SlotGrid(date, work_start, work_end), fetched,
                              1, 0, duration_minutes, <<>>))

NoCalendarCall ==
    [ called |-> FALSE, op |-> "none", outcome |-> "none", error |-> "none",
      result |-> <<>> ]

(***************************************************************************)
(* utils/workflow_engine.py                                                *)
(***************************************************************************)
TriggerType ==
    { "quotation.approved", "contract.signed", "project.created",
      "task.completed", "payment.received", "inquiry.created",
      "scheduled", "manual" }

TriggerInputs == { "quotation.approved", "project.created" }

IdInputs == { 1, 2 }

\* keys of ACTION_HANDLERS, and one type no handler is written for
ActionTypes ==
    { "send_notification", "update_status", "create_task",
      "assign_user", "calculate_value", "unknown_action" }

\* Handlers are pluggable objects; what the engine can observe of a call
\* handler.execute(context, config) is that it returns a result or raises.
NoHandler == "None"
HandlerInputs == { "returns", "raises" }

HandlerExecute(handler, context, config) ==
    IF handler = "raises"
    THEN [raised |-> TRUE, value |-> "handler failed"]
    ELSE [raised |-> FALSE, value |-> "done"]

\* Condition callables: None, and the lambda of the project-completion
\* template, lambda ctx: ctx.get('progress', 0) >= 100, which raises a
\* TypeError when progress is None.
NoCondition == "None"
ConditionInputs == { NoCondition, "progress_ge_100" }

CallCondition(condition, context) ==
    LET v == DictGet(context, "progress", 0)
    IN  IF v.kind = "None" THEN "raise"
        ELSE IF v.val >= 100 THEN "true" ELSE "false"

\* Workflow.__init__
Workflow(id, trigger_type, actions, condition) ==
    [ id |-> id, trigger_type |-> trigger_type, actions |-> actions,
      condition |-> condition, is_active |-> TRUE ]

\* Workflow.check_condition: "true", "false" or "raise"
check_condition(workflow, context) ==
    IF workflow.condition # NoCondition
    THEN CallCondition(workflow.condition, context)
    ELSE "true"

NewReport(workflow) ==
    [ workflow_id |-> workflow.id, actions |-> <<>>,
      success |-> TRUE, errors |-> <<>> ]

MissingHandlerMessage_Lower(type) == "no handler found for action: " \o type

MissingHandlerMessage(type) == "No handler found for action: " \o type

\* results['actions'].append({'action_type': ..., 'result': action_result})
OnHandlerReturned(report, action_type, result) ==
    [report EXCEPT !.actions =
        Append(@, [action_type |-> action_type, result |-> result])]

\* the else branch: results['errors'].append(f"No handler found ...")
OnMissingHandler_FlipsSuccess(report, action_type) ==
    [report EXCEPT !.success = FALSE,
                   !.errors = Append(@, MissingHandlerMessage(action_type))]

OnMissingHandler(report, action_type) ==
    [report EXCEPT !.errors = Append(@, MissingHandlerMessage(action_type))]

\* the except clause: success = False; errors.append(str(e))
OnHandlerRaised_AlsoOutcome(report, action_type, message) ==
    [report EXCEPT !.success = FALSE,
                   !.errors = Append(@, message),
                   !.actions = Append(@, [action_type |-> action_type,
                                          result |-> message])]

OnHandlerRaised(report, action_type, message) ==
    [report EXCEPT !.success = FALSE, !.errors = Append(@, message)]

CallEvents(k, action_type, how) ==
    << [ev |-> "call", idx |-> k, type |-> action_type],
       [ev |-> how, idx |-> k, type |-> action_type] >>

\* One iteration of the for loop of Workflow.execute: the body of the try
\* and the except clause.  st = [report, trace]; trace is the sequence of
\* handler calls and their completions.
ExecuteStep(st, k, action_type, context, action_handlers) ==
    LET handler == action_handlers[action_type]
        r == HandlerExecute(handler, context, action_type)
    IN  IF handler # NoHandler
        THEN IF r.raised
             THEN [ report |-> OnHandlerRaised(st.report, action_type, r.value),
                    trace |-> st.trace \o CallEvents(k, action_type, "raise") ]
             ELSE [ report |-> OnHandlerReturned(st.report, action_type, r.value),
                    trace |-> st.trace \o CallEvents(k, action_type, "return") ]
        ELSE [ report |-> OnMissingHandler(st.report, action_type),
               trace |-> st.trace ]

\* the order in which "for action in self.actions" visits the list
RECURSIVE IterationOrder_Reversed(_)
IterationOrder_Reversed(n) ==
    IF n = 0 THEN <<>> ELSE <<n>> \o IterationOrder_Reversed(n - 1)

IterationOrder(n) == [k \in 1..n |-> k]

\* a loop that stops at the first action whose handler raised
RECURSIVE ExecuteLoop_FailFast(_, _, _, _, _)
ExecuteLoop_FailFast(order, workflow, context, action_handlers, st) ==
    IF order = <<>> \/ ~st.report.success THEN st
    ELSE ExecuteLoop_FailFast(Tail(order), workflow, context, action_handlers,
            ExecuteStep(st, Head(order), workflow.actions[Head(order)],
                        context, action_handlers))

\* Workflow.execute: the for loop over self.actions
RECURSIVE ExecuteLoop(_, _, _, _, _)
ExecuteLoop(order, workflow, context, action_handlers, st) ==
    IF order = <<>> THEN st
    ELSE ExecuteLoop(Tail(order), workflow, context, action_handlers,
            ExecuteStep(st, Head(order), workflow.actions[Head(order)],
                        context, action_handlers))

\* Workflow.execute
execute(workflow, context, action_handlers) ==
    ExecuteLoop(IterationOrder(Len(workflow.actions)), workflow, context,
                action_handlers, [report |-> NewReport(workflow), trace |-> <<>>])

\* the handler calls of one workflow, tagged with the workflow's position
TagTrace(i, trace) ==
    [n \in 1..Len(trace) |->
        [wf |-> i, ev |-> trace[n].ev, idx |-> trace[n].idx, type |-> trace[n].type]]

\* the test of execute_trigger's first if
Matches_IgnoresActive(workflow, trigger_type) ==
    workflow.trigger_type = trigger_type

Matches(workflow, trigger_type) ==
    workflow.trigger_type = trigger_type /\ workflow.is_active

\* WorkflowEngine.execute_trigger: the for loop over self.workflows.
\* acc = [results, executed, trace]; a condition that raises is not caught,
\* so the call ends there and returns nothing.
RECURSIVE TriggerLoop(_, _, _, _, _, _)
TriggerLoop(i, ws, action_handlers, trigger_type, context, acc) ==
    IF i > Len(ws)
    THEN [outcome |-> "returned", results |-> acc.results,
          executed |-> acc.executed, trace |-> acc.trace]
    ELSE IF Matches(ws[i], trigger_type)
    THEN LET c == check_condition(ws[i], context)
             r == execute(ws[i], context, action_handlers)
         IN  IF c = "raise"
             THEN [outcome |-> "raised", results |-> <<>>,
                   executed |-> acc.executed, trace |-> acc.trace]
             ELSE IF c = "true"
             THEN TriggerLoop(i + 1, ws, action_handlers, trigger_type, context,
                     [results |-> Append(acc.results, r.report),
                      executed |-> Append(acc.executed, i),
                      trace |-> acc.trace \o TagTrace(i, r.trace)])
             ELSE TriggerLoop(i + 1, ws, action_handlers, trigger_type, context, acc)
    ELSE TriggerLoop(i + 1, ws, action_handlers, trigger_type, context, acc)

execute_trigger(ws, action_handlers, trigger_type, context) ==
    TriggerLoop(1, ws, action_handlers, trigger_type, context,
                [results |-> <<>>, executed |-> <<>>, trace |-> <<>>])

\* the test of execute_workflow's if
IdMatches_ActiveOnly(workflow, workflow_id) ==
    workflow.id = workflow_id /\ workflow.is_active

IdMatches(workflow, workflow_id) ==
    workflow.id = workflow_id

\* WorkflowEngine.execute_workflow: the first workflow with that id, or None
execute_workflow(ws, action_handlers, workflow_id, context) ==
    LET found == { i \in 1..Len(ws) : IdMatches(ws[i], workflow_id) }
        first == CHOOSE i \in found : \A j \in found : i <= j
        r == execute(ws[first], context, action_handlers)
    IN  IF found = {}
        THEN [outcome |-> "returned_none", results |-> <<>>,
              executed |-> <<>>, trace |-> <<>>]
        ELSE [outcome |-> "returned", results |-> <<r.report>>,
              executed |-> <<first>>, trace |-> TagTrace(first, r.trace)]

NoContext == [progress |-> Missing]

NoCall ==
    [ op |-> "none", trigger_type |-> "none", workflow_id |-> 0,
      context |-> NoContext, outcome |-> "none", results |-> <<>>,
      executed |-> <<>>, trace |-> <<>> ]

CallRecord(op, trigger_type, workflow_id, context, r) ==
    [ op |-> op, trigger_type |-> trigger_type, workflow_id |-> workflow_id,
      context |-> context, outcome |-> r.outcome, results |-> r.results,
      executed |-> r.executed, trace |-> r.trace ]

(***************************************************************************)
(* utils/workflow_templates.py: the default templates and WorkflowBuilder. *)
(***************************************************************************)
quotation_to_contract ==
    Workflow(1, "quotation.approved",
             <<"send_notification", "update_status">>, NoCondition)
contract_signed_to_project ==
    Workflow(2, "contract.signed",
             <<"create_task", "send_notification">>, NoCondition)
payment_received ==
    Workflow(3, "payment.received",
             <<"send_notification", "update_status">>, NoCondition)
inquiry_auto_reply ==
    Workflow(4, "inquiry.created", <<"send_notification">>, NoCondition)
task_progress_calculation ==
    Workflow(5, "task.completed", <<"calculate_value">>, NoCondition)
project_completion_workflow ==
    Workflow(6, "project.created", <<>>, "progress_ge_100")

all_templates ==
    << quotation_to_contract, contract_signed_to_project, payment_received,
       inquiry_auto_reply, task_progress_calculation,
       project_completion_workflow >>

\* WorkflowBuilder.__init__: no name, no trigger, no actions, no condition
NoName == "None"
NoTrigger == "None"
WorkflowBuilder ==
    [ name |-> NoName, trigger_type |-> NoTrigger, actions |-> <<>>,
      condition |-> NoCondition ]

\* "if not self.name or not self.trigger_type: raise ValueError"
BuildRejects(b) ==
    b.name \in {NoName, ""} \/ b.trigger_type = NoTrigger

NoWorkflow == Workflow(0, NoTrigger, <<>>, NoCondition)
NoBuild == [ outcome |-> "none", error |-> "none", workflow |-> NoWorkflow ]

\* WorkflowBuilder.build
build(b, workflow_id) ==
    IF BuildRejects(b)
    THEN [ outcome |-> "raised", error |-> "ValueError", workflow |-> NoWorkflow ]
    ELSE [ outcome |-> "returned", error |-> "none",
           workflow |-> Workflow(workflow_id, b.trigger_type, b.actions,
                                 b.condition) ]

(***************************************************************************)
(* Engine operations.  A return value lives until the next call.           *)
(***************************************************************************)
\* WorkflowEngine.register_workflow
RegisterWorkflow(workflow) ==
    /\ workflows' = Append(workflows, workflow)
    /\ ret' = NoCall
    /\ UNCHANGED <<engine_actions, reminderVars, notifyVars, calendarVars, builder>>
    /\ OthersIdle
    /\ build_ret' = NoBuild

\* WorkflowEngine.register_action
RegisterAction(action_type, handler) ==
    /\ engine_actions' = [engine_actions EXCEPT ![action_type] = handler]
    /\ ret' = NoCall
    /\ UNCHANGED <<workflows, reminderVars, notifyVars, calendarVars, builder>>
    /\ OthersIdle
    /\ build_ret' = NoBuild

\* a caller's assignment workflow.is_active = flag
SetActive(i, flag) ==
    /\ i \in 1..Len(workflows)
    /\ workflows[i].is_active # flag
    /\ workflows' = [workflows EXCEPT ![i].is_active = flag]
    /\ ret' = NoCall
    /\ UNCHANGED <<engine_actions, reminderVars, notifyVars, calendarVars, builder>>
    /\ OthersIdle
    /\ build_ret' = NoBuild

ExecuteTrigger(trigger_type, context) ==
    /\ ret' = CallRecord("execute_trigger", trigger_type, 0, context,
                execute_trigger(workflows, engine_actions, trigger_type, context))
    /\ UNCHANGED <<workflows, engine_actions, reminderVars, notifyVars, calendarVars, builder>>
    /\ OthersIdle
    /\ build_ret' = NoBuild

ExecuteWorkflow(workflow_id, context) ==
    /\ ret' = CallRecord("execute_workflow", "none", workflow_id, context,
                execute_workflow(workflows, engine_actions, workflow_id, context))
    /\ UNCHANGED <<workflows, engine_actions, reminderVars, notifyVars, calendarVars, builder>>
    /\ OthersIdle
    /\ build_ret' = NoBuild

\* WorkflowEngine.__init__, and an empty database
Init ==
    /\ workflows = <<>>
    /\ engine_actions = [t \in ActionTypes |-> NoHandler]
    /\ ret = NoCall
    /\ now = 0
    /\ tasks = <<>>
    /\ sent = <<>>
    /\ last_scan = -1
    /\ rule_enabled = [t \in NotificationEventType |-> TRUE]
    /\ notify_ret = NoNotifyCall
    /\ events = <<>>
    /\ checker_db = "CalendarDB"
    /\ cal_ret = NoCalendarCall
    /\ builder = WorkflowBuilder
    /\ build_ret = NoBuild
    /\ op_ret = NoOp
    /\ procs = [p \in ProcIds |-> IdleProc]
    /\ project_progress = 0
    /\ sessions = <<>>

(***************************************************************************)
(* Dispatch: several workflows, triggers, conditions and active flags.     *)
(***************************************************************************)
EngineActionLists == { <<>>, <<"send_notification">> }

EngineWorkflowInputs ==
    { Workflow(id, t, a, c) : id \in IdInputs, t \in TriggerInputs,
                              a \in EngineActionLists, c \in ConditionInputs }

NextEngine ==
    \/ \E w \in EngineWorkflowInputs :
          Len(workflows) < MaxWorkflows /\ RegisterWorkflow(w)
    \/ \E h \in { "returns" } : RegisterAction("send_notification", h)
    \/ \E i \in 1..MaxWorkflows, flag \in BOOLEAN : SetActive(i, flag)
    \/ \E t \in TriggerInputs, ctx \in ContextInputs : ExecuteTrigger(t, ctx)

SpecEngine == Init /\ [][NextEngine]_vars

(***************************************************************************)
(* Execution by id: workflows that are inactive or have a condition.       *)
(***************************************************************************)
NextById ==
    \/ \E w \in EngineWorkflowInputs :
          Len(workflows) < MaxWorkflows /\ RegisterWorkflow(w)
    \/ \E h \in { "returns" } : RegisterAction("send_notification", h)
    \/ \E i \in 1..MaxWorkflows, flag \in BOOLEAN : SetActive(i, flag)
    \/ \E id \in IdInputs, ctx \in ContextInputs : ExecuteWorkflow(id, ctx)

SpecById == Init /\ [][NextById]_vars

(***************************************************************************)
(* Workflow.execute: one workflow, every action list and every registry.   *)
(***************************************************************************)
ExecuteTypeInputs == { "send_notification", "create_task", "unknown_action" }

RECURSIVE SeqsUpTo(_, _)
SeqsUpTo(S, n) ==
    IF n = 0 THEN { <<>> }
    ELSE LET shorter == SeqsUpTo(S, n - 1)
         IN  shorter \cup { Append(q, x) : q \in shorter, x \in S }

ExecuteWorkflowInputs ==
    { Workflow(1, "manual", a, NoCondition) :
        a \in SeqsUpTo(ExecuteTypeInputs, MaxActions) }

NextExecute ==
    \/ \E w \in ExecuteWorkflowInputs :
          workflows = <<>> /\ RegisterWorkflow(w)
    \/ \E t \in ExecuteTypeInputs, h \in HandlerInputs : RegisterAction(t, h)
    \/ \E ctx \in { NoContext } : ExecuteTrigger("manual", ctx)
    \/ \E id \in IdInputs, ctx \in { NoContext } : ExecuteWorkflow(id, ctx)

SpecExecute == Init /\ [][NextExecute]_vars

(***************************************************************************)
(* utils/notification_rules.py and the reminder scan of                    *)
(* utils/notification_manager.py.  Time is in hours.                       *)
(***************************************************************************)
TickHours == HoursPerDay \div 2
NullDate == -1

\* NotificationRule.reminder_hours of the default rules
reminder_hours(event_type) ==
    CASE event_type = "task_due" -> <<24, 0>>
      [] event_type = "payment_due" -> <<72, 24, 0>>
      [] OTHER -> <<>>

\* the interval between two scans that the reminder window is measured by
ScanIntervalHours == 24

\* datetime.date(): the day a time falls in
DateOf(t) == t \div HoursPerDay

TaskStatusInputs == { "todo", "done" }
DueDateInputs == { NullDate, 24, 48 }

\* the notifications one task gets from one scan
DueSoon(task, today, tomorrow) ==
    DateOf(task.due_date) = tomorrow /\ task.status # "done"

Overdue(task, today) ==
    DateOf(task.due_date) < today /\ task.status # "done"

TaskReminders(task, today, tomorrow) ==
    IF task.due_date = NullDate THEN <<>>
    ELSE (IF DueSoon(task, today, tomorrow)
          THEN << [notification_type |-> "task_due", task_id |-> task.id] >>
          ELSE <<>>)
         \o
         (IF Overdue(task, today)
          THEN << [notification_type |-> "task_overdue", task_id |-> task.id] >>
          ELSE <<>>)

\* NotificationManager.check_and_send_reminders: the loops over the
\* projects and their tasks; every send_notification inserts a row
RECURSIVE ScanLoop(_, _, _, _)
ScanLoop(k, rows, today, tomorrow) ==
    IF k > Len(rows) THEN <<>>
    ELSE TaskReminders(rows[k], today, tomorrow)
         \o ScanLoop(k + 1, rows, today, tomorrow)

check_and_send_reminders(rows, time) ==
    ScanLoop(1, rows, DateOf(time), DateOf(time + HoursPerDay))

\* TaskDB.add_task: a new row, status 'todo' by the column default
AddTask(due_date) ==
    /\ Len(tasks) < MaxTasks
    /\ tasks' = Append(tasks, [id |-> Len(tasks) + 1, due_date |-> due_date,
                               status |-> "todo"])
    /\ last_scan' = -1
    /\ UNCHANGED <<now, sent, engineVars, notifyVars, calendarVars, builderVars>>
    /\ OthersIdle

\* TaskDB.update_task_status
UpdateTaskStatus(task_id, status) ==
    /\ task_id \in 1..Len(tasks)
    /\ tasks[task_id].status # status
    /\ tasks' = [tasks EXCEPT ![task_id].status = status]
    /\ last_scan' = -1
    /\ UNCHANGED <<now, sent, engineVars, notifyVars, calendarVars, builderVars>>
    /\ OthersIdle

\* time passes
Tick ==
    /\ now < MaxTicks * TickHours
    /\ now' = now + TickHours
    /\ last_scan' = -1
    /\ notify_ret' = NoNotifyCall
    /\ UNCHANGED <<tasks, sent, engineVars, rule_enabled, calendarVars, builderVars>>
    /\ OthersIdle

CheckAndSendReminders ==
    LET new == check_and_send_reminders(tasks, now)
    IN  /\ Len(sent) + Len(new) <= MaxNotifications
        /\ sent' = sent \o new
        /\ last_scan' = Len(new)
        /\ UNCHANGED <<now, tasks, engineVars, notifyVars, calendarVars, builderVars>>
        /\ OthersIdle

NextReminder ==
    \/ \E d \in DueDateInputs : AddTask(d)
    \/ \E id \in 1..MaxTasks, st \in TaskStatusInputs : UpdateTaskStatus(id, st)
    \/ Tick
    \/ CheckAndSendReminders

SpecReminder == Init /\ [][NextReminder]_vars

(***************************************************************************)
(* Templates and builder-made workflows registered with the engine.        *)
(***************************************************************************)
MaxBuilderActions == 1

\* WorkflowBuilder()
NewBuilder ==
    /\ builder # WorkflowBuilder
    /\ builder' = WorkflowBuilder
    /\ build_ret' = NoBuild
    /\ UNCHANGED <<engineVars, reminderVars, notifyVars, calendarVars>>
    /\ OthersIdle

SetName(name) ==
    /\ builder.name # name
    /\ builder' = [builder EXCEPT !.name = name]
    /\ build_ret' = NoBuild
    /\ UNCHANGED <<engineVars, reminderVars, notifyVars, calendarVars>>
    /\ OthersIdle

SetTrigger(trigger_type) ==
    /\ builder.trigger_type # trigger_type
    /\ builder' = [builder EXCEPT !.trigger_type = trigger_type]
    /\ build_ret' = NoBuild
    /\ UNCHANGED <<engineVars, reminderVars, notifyVars, calendarVars>>
    /\ OthersIdle

AddAction(action_type) ==
    /\ Len(builder.actions) < MaxBuilderActions
    /\ builder' = [builder EXCEPT !.actions = Append(@, action_type)]
    /\ build_ret' = NoBuild
    /\ UNCHANGED <<engineVars, reminderVars, notifyVars, calendarVars>>
    /\ OthersIdle

Build(workflow_id) ==
    /\ build_ret' = build(builder, workflow_id)
    /\ UNCHANGED <<builder, engineVars, reminderVars, notifyVars, calendarVars>>
    /\ OthersIdle

\* ids given to build: one a template has, and the one of the usage example
BuildIdInputs == { 1, 999 }
NameInputs == { "custom" }
BuilderTriggerInputs == { "quotation.approved" }
BuilderActionInputs == { "send_notification" }

NextTemplates ==
    \/ \E n \in 1..Len(all_templates) :
          Len(workflows) < MaxWorkflows /\ RegisterWorkflow(all_templates[n])
    \/ /\ build_ret.outcome = "returned"
       /\ Len(workflows) < MaxWorkflows
       /\ RegisterWorkflow(build_ret.workflow)
    \/ NewBuilder
    \/ \E name \in NameInputs : SetName(name)
    \/ \E t \in BuilderTriggerInputs : SetTrigger(t)
    \/ \E a \in BuilderActionInputs : AddAction(a)
    \/ \E id \in BuildIdInputs : Build(id)

SpecTemplates == Init /\ [][NextTemplates]_vars

(***************************************************************************)
(* Notification events: rules switched on and off, events checked.         *)
(***************************************************************************)
\* a caller's assignment rule.default_enabled = flag
SetDefaultEnabled(event_type, flag) ==
    /\ rule_enabled[event_type] # flag
    /\ rule_enabled' = [rule_enabled EXCEPT ![event_type] = flag]
    /\ notify_ret' = NoNotifyCall
    /\ UNCHANGED <<engineVars, reminderVars, calendarVars, builderVars>>
    /\ OthersIdle

CheckAndNotify(event_type, ctx) ==
    LET r == check_and_notify(event_type, ctx, rule_enabled)
    IN  /\ notify_ret' = [ called |-> TRUE, event_type |-> event_type,
                           context |-> ctx, returned |-> r.returned,
                           sent |-> r.sent ]
        /\ UNCHANGED <<rule_enabled, engineVars, reminderVars, calendarVars, builderVars>>
        /\ OthersIdle

StatusInputs ==
    { NoStatus, "todo", "done", "completed", "pending", "new", "approved" }
NotifyDueInputs == { Missing, PyInt(24) }
SignatureInputs == { NoSignature, NoneSignature, "signed" }
ProgressInputs == { Missing, PyInt(0), PyInt(25), PyInt(30), PyInt(50),
                    PyInt(75), PyInt(100) }
CostInputs == { Missing, PyInt(49), PyInt(50), PyInt(51) }

\* contexts that set the status and due date, or one other key
NotifyContextInputs ==
    { NotifyContext(st, d, NoSignature, Missing, Missing) :
        st \in StatusInputs, d \in NotifyDueInputs }
    \cup { NotifyContext(NoStatus, Missing, sg, Missing, Missing) :
            sg \in SignatureInputs }
    \cup { NotifyContext(NoStatus, Missing, NoSignature, p, Missing) :
            p \in ProgressInputs }
    \cup { NotifyContext(NoStatus, Missing, NoSignature, Missing, c) :
            c \in CostInputs }

EventTypeInputs == NotificationEventType \cup { "unknown_event" }
EnableInputs == { "ai_usage_limit" }

NextNotify ==
    \/ \E t \in EnableInputs, flag \in BOOLEAN : SetDefaultEnabled(t, flag)
    \/ \E t \in EventTypeInputs, ctx \in NotifyContextInputs : CheckAndNotify(t, ctx)
    \/ Tick

SpecNotify == Init /\ [][NextNotify]_vars

(***************************************************************************)
(* The reminder scan step by step, for callers that run it at the same     *)
(* time: nothing in the scan takes a lock or records that a scan runs.     *)
(***************************************************************************)
\* the scan begins: it reads the clock and the project's tasks
ScanStart(p) ==
    /\ procs[p].pc = "idle"
    /\ procs' = [procs EXCEPT ![p] =
                    [ pc |-> "scanning",
                      pending |-> check_and_send_reminders(tasks, now) ]]
    /\ UNCHANGED <<op_ret, project_progress, sessions, engineVars, reminderVars,
                   notifyVars, calendarVars, builderVars>>

\* one self.send_notification call of the loop
ScanSend(p) ==
    /\ procs[p].pc = "scanning"
    /\ procs[p].pending # <<>>
    /\ Len(sent) < MaxNotifications
    /\ sent' = Append(sent, Head(procs[p].pending))
    /\ procs' = [procs EXCEPT ![p].pending = Tail(@)]
    /\ UNCHANGED <<now, tasks, last_scan, op_ret, project_progress, sessions,
                   engineVars, notifyVars, calendarVars, builderVars>>

\* the loops are over: the scan returns
ScanEnd(p) ==
    /\ procs[p].pc = "scanning"
    /\ procs[p].pending = <<>>
    /\ procs' = [procs EXCEPT ![p] = IdleProc]
    /\ UNCHANGED <<op_ret, project_progress, sessions, engineVars, reminderVars,
                   notifyVars, calendarVars, builderVars>>

NextScan ==
    \/ \E d \in DueDateInputs : AddTask(d)
    \/ Tick
    \/ \E p \in ProcIds : ScanStart(p)
    \/ \E p \in ProcIds : ScanSend(p)
    \/ \E p \in ProcIds : ScanEnd(p)

SpecScan == Init /\ [][NextScan]_vars

(***************************************************************************)
(* utils/calendar_manager.py: create_recurring_event.  Dates are day       *)
(* numbers.                                                                *)
(***************************************************************************)
DaysPerWeek == 7
DaysPerYear == 365
NoDate == -1
\* delta is None: no timedelta was chosen
NoDelta == 0

\* the if/elif chain that picks delta, in days
RecurrenceDelta(recurrence) ==
    CASE recurrence = "daily" -> 1
      [] recurrence = "weekly" -> DaysPerWeek
      [] recurrence = "monthly" -> NoDelta
      [] recurrence = "yearly" -> DaysPerYear
      [] OTHER -> NoDelta

\* while current <= end: add_event(start_date=current.isoformat()); the
\* rows added and the ids collected
RECURSIVE RecurLoop(_, _, _, _, _)
RecurLoop(rows, event_ids, current, end, delta) ==
    IF current <= end
    THEN RecurLoop(Append(rows, EventRow(Len(rows) + 1, Stamp(current, 0, 0),
                                         NoStamp, TRUE)),
                   Append(event_ids, Len(rows) + 1),
                   current + delta, end, delta)
    ELSE [ rows |-> rows, event_ids |-> event_ids ]

create_recurring_event(rows, start_date, recurrence, recurrence_end) ==
    LET end == IF recurrence_end # NoDate THEN recurrence_end
               ELSE start_date + DaysPerYear
        delta == RecurrenceDelta(recurrence)
    IN  IF delta # NoDelta
        THEN RecurLoop(rows, <<>>, start_date, end, delta)
        ELSE [ rows |-> rows, event_ids |-> <<>> ]

CreateRecurringEvent(start_date, recurrence, recurrence_end) ==
    LET r == create_recurring_event(events, start_date, recurrence, recurrence_end)
    IN  /\ Len(events) < MaxEvents
        /\ events' = r.rows
        /\ cal_ret' = [ called |-> TRUE, op |-> "create_recurring_event",
                        args |-> [ start_date |-> start_date,
                                   recurrence |-> recurrence,
                                   recurrence_end |-> recurrence_end ],
                        stored_before |-> Len(events),
                        outcome |-> "returned", error |-> "none",
                        result |-> r.event_ids ]
        /\ UNCHANGED <<checker_db, op_ret, procs, project_progress, sessions,
                       engineVars, reminderVars, notifyVars, builderVars>>

RecurrenceInputs == { "daily", "weekly", "monthly", "yearly", "hourly" }
RecurStartInputs == { 0, 3 }
\* the end is absent only where the default of a year makes few events
RecurInputs ==
    { <<s, rec, s + n>> :
        s \in RecurStartInputs, rec \in RecurrenceInputs, n \in { 0, 1, 7, 14 } }
    \cup { <<s, rec, NoDate>> :
        s \in RecurStartInputs, rec \in { "monthly", "yearly", "hourly" } }

NextRecurring ==
    \E a \in RecurInputs : CreateRecurringEvent(a[1], a[2], a[3])

SpecRecurring == Init /\ [][NextRecurring]_vars

(***************************************************************************)
(* utils/calendar_manager.py: CalendarManager.sync_from_tasks, step by     *)
(* step.  The look-up of an existing event and the insert are two calls on *)
(* two connections.                                                        *)
(***************************************************************************)
\* the row add_event makes for a task: event_type 'task', all_day, no end
TaskEventRow(id, task) ==
    [ id |-> id, start_date |-> Stamp(DateOf(task.due_date), 0, 0),
      end_date |-> NoStamp, all_day |-> TRUE, event_type |-> "task",
      task_id |-> task.id ]

\* CalendarDB.get_events_by_type
get_events_by_type(rows, event_type) ==
    LET OfType(row) == row.event_type = event_type
    IN  OrderByStart(SelectSeq(rows, OfType))

\* event_exists = any(e.get('task_id') == task['id'] for e in existing_events)
event_exists_Never(existing_events, task) ==
    FALSE

event_exists(existing_events, task) ==
    \E n \in 1..Len(existing_events) : existing_events[n].task_id = task.id

\* the tasks the loop does something for: "if task.get('due_date')"
WithDueDate(rows) ==
    LET HasDue(task) == task.due_date # NullDate
    IN  SelectSeq(rows, HasDue)

\* how many of these have no task event yet
Unsynced(task_rows, event_rows) ==
    Cardinality({ n \in 1..Len(task_rows) :
        /\ task_rows[n].due_date # NullDate
        /\ ~event_exists(get_events_by_type(event_rows, "task"), task_rows[n]) })

OthersIn(p) == { q \in ProcIds \ {p} : procs[q].pc # "idle" }

\* the call begins: the tasks are read; a call that begins while another
\* runs makes both not alone
SyncStart(p) ==
    /\ procs[p].pc = "idle"
    /\ procs' = [ q \in ProcIds |->
                    IF q = p
                    THEN [ pc |-> "check", read |-> tasks,
                           todo |-> WithDueDate(tasks),
                           synced_count |-> 0, alone |-> OthersIn(p) = {},
                           unsynced |-> Unsynced(tasks, events) ]
                    ELSE IF procs[q].pc = "idle" THEN procs[q]
                    ELSE [procs[q] EXCEPT !.alone = FALSE] ]
    /\ op_ret' = NoOp
    /\ UNCHANGED <<project_progress, sessions, engineVars, reminderVars,
                   notifyVars, calendarVars, builderVars>>

\* existing_events = self.db.get_events_by_type('task'); event_exists = ...
SyncCheck(p) ==
    /\ procs[p].pc = "check"
    /\ procs[p].todo # <<>>
    /\ procs' = [procs EXCEPT ![p] =
                    IF event_exists(get_events_by_type(events, "task"),
                                    Head(procs[p].todo))
                    THEN [@ EXCEPT !.todo = Tail(@)]
                    ELSE [@ EXCEPT !.pc = "insert"]]
    /\ UNCHANGED <<op_ret, project_progress, sessions, engineVars, reminderVars,
                   notifyVars, calendarVars, builderVars>>

\* self.db.add_event(...); synced_count += 1
SyncInsert(p) ==
    /\ procs[p].pc = "insert"
    /\ events' = Append(events, TaskEventRow(Len(events) + 1, Head(procs[p].todo)))
    /\ procs' = [procs EXCEPT ![p] =
                    [@ EXCEPT !.pc = "check", !.todo = Tail(@),
                              !.synced_count = @ + 1]]
    /\ UNCHANGED <<checker_db, cal_ret, op_ret, project_progress, sessions,
                   engineVars, reminderVars, notifyVars, builderVars>>

\* return synced_count
SyncEnd(p) ==
    /\ procs[p].pc = "check"
    /\ procs[p].todo = <<>>
    /\ op_ret' = [ op |-> "sync_from_tasks",
                   returned |-> procs[p].synced_count,
                   read |-> procs[p].read,
                   alone |-> procs[p].alone,
                   unsynced |-> procs[p].unsynced ]
    /\ procs' = [procs EXCEPT ![p] = IdleProc]
    /\ UNCHANGED <<project_progress, sessions, engineVars, reminderVars,
                   notifyVars, calendarVars, builderVars>>

NextSync ==
    \/ \E d \in DueDateInputs : AddTask(d)
    \/ \E p \in ProcIds : SyncStart(p)
    \/ \E p \in ProcIds : SyncCheck(p)
    \/ \E p \in ProcIds : SyncInsert(p)
    \/ \E p \in ProcIds : SyncEnd(p)

SpecSync == Init /\ [][NextSync]_vars

(***************************************************************************)
(* utils/workflow_engine.py: CalculateValueAction and UpdateStatusAction   *)
(* on the project the tasks table belongs to.                              *)
(***************************************************************************)
TheProject == 1
\* config.get('project_id') with the key absent: None
NoProject == 0

\* TaskDB.get_project_tasks: SELECT * FROM tasks WHERE project_id = ?
get_project_tasks(rows, project_id) ==
    IF project_id = TheProject THEN rows ELSE <<>>

\* ProjectDB.update_project_progress: UPDATE projects ... WHERE id = ?
update_project_progress(stored, project_id, value) ==
    IF project_id = TheProject THEN value ELSE stored

\* sum(1 for t in tasks if t['status'] == 'done')
CompletedTasks(rows) ==
    Cardinality({ n \in 1..Len(rows) : rows[n].status = "done" })

\* int((completed_tasks / total_tasks * 100)) if total_tasks > 0 else 0.
\* The quotient is a float; for fewer than 50 tasks the truncated product is
\* the integer quotient below, and at 29 of 50 it is 57 where the integer
\* quotient is 58.
ProgressOf(completed_tasks, total_tasks) ==
    IF total_tasks > 0 THEN (completed_tasks * 100) \div total_tasks ELSE 0

\* CalculateValueAction.execute up to the value it is about to store
calculate_value(rows, config) ==
    IF config.type = "project_progress"
    THEN LET fetched == get_project_tasks(rows, config.project_id)
         IN  [ calculated |-> TRUE,
               progress |-> ProgressOf(CompletedTasks(fetched), Len(fetched)) ]
    ELSE [ calculated |-> FALSE, progress |-> 0 ]

\* the config of the action of task_progress_calculation: no project_id
TemplateCalcConfig == [ type |-> "project_progress", project_id |-> NoProject ]
CalcConfigInputs ==
    { TemplateCalcConfig,
      [ type |-> "project_progress", project_id |-> TheProject ],
      [ type |-> "other", project_id |-> TheProject ] }

\* CalculateValueAction.execute, run alone
CalculateValue(config) ==
    LET r == calculate_value(tasks, config)
    IN  /\ project_progress' =
              IF r.calculated
              THEN update_project_progress(project_progress, config.project_id,
                                           r.progress)
              ELSE project_progress
        /\ op_ret' = [ op |-> "calculate_value", config |-> config,
                       calculated |-> r.calculated, progress |-> r.progress ]
        /\ UNCHANGED <<procs, sessions, engineVars, reminderVars, notifyVars,
                       calendarVars, builderVars>>

\* UpdateStatusAction.execute with entity_type 'project':
\* update_project_progress(entity_id, config.get('progress', 0))
UpdateStatusAction(value) ==
    /\ project_progress # value
    /\ project_progress' = update_project_progress(project_progress, TheProject, value)
    /\ op_ret' = NoOp
    /\ UNCHANGED <<procs, sessions, engineVars, reminderVars, notifyVars,
                   calendarVars, builderVars>>

StoredProgressInputs == { 0, 50, 100 }

NextCalc ==
    \/ \E d \in DueDateInputs : AddTask(d)
    \/ \E id \in 1..MaxTasks, st \in TaskStatusInputs : UpdateTaskStatus(id, st)
    \/ \E v \in StoredProgressInputs : UpdateStatusAction(v)
    \/ \E config \in CalcConfigInputs : CalculateValue(config)

SpecCalc == Init /\ [][NextCalc]_vars

(***************************************************************************)
(* Two dispatches of task.completed at the same time: each caller marks a  *)
(* task done, then its calculate_value action reads the tasks, computes    *)
(* and writes the progress.  No step takes a lock.                         *)
(***************************************************************************)
\* update_task_status(task_id, 'done'), then the dispatch begins
CompleteTask(p, task_id) ==
    /\ procs[p].pc = "idle"
    /\ task_id \in 1..Len(tasks)
    /\ tasks[task_id].status # "done"
    /\ tasks' = [tasks EXCEPT ![task_id].status = "done"]
    /\ procs' = [procs EXCEPT ![p] = [ pc |-> "dispatched", value |-> 0 ]]
    /\ op_ret' = NoOp
    /\ UNCHANGED <<now, sent, last_scan, project_progress, sessions, engineVars,
                   notifyVars, calendarVars, builderVars>>

\* tasks = task_db.get_project_tasks(project_id) and the computation
CalcRead(p, config) ==
    /\ procs[p].pc = "dispatched"
    /\ procs' = [procs EXCEPT ![p] =
                    [ pc |-> "computed",
                      value |-> calculate_value(tasks, config).progress ]]
    /\ UNCHANGED <<op_ret, project_progress, sessions, engineVars, reminderVars,
                   notifyVars, calendarVars, builderVars>>

\* project_db.update_project_progress(project_id, progress) and the return
CalcWrite(p, config) ==
    /\ procs[p].pc = "computed"
    /\ project_progress' = update_project_progress(project_progress,
                                                   config.project_id, procs[p].value)
    /\ procs' = [procs EXCEPT ![p] = IdleProc]
    /\ op_ret' = [ op |-> "calculate_value", config |-> config,
                   calculated |-> TRUE, progress |-> procs[p].value ]
    /\ UNCHANGED <<sessions, engineVars, reminderVars, notifyVars,
                   calendarVars, builderVars>>

RaceConfigInputs == { [ type |-> "project_progress", project_id |-> TheProject ] }

\* tasks are added before the dispatches start
NextRace ==
    \/ \E d \in DueDateInputs :
          (\A p \in ProcIds : procs[p].pc = "idle") /\ AddTask(d)
    \/ \E p \in ProcIds, id \in 1..MaxTasks : CompleteTask(p, id)
    \/ \E p \in ProcIds, config \in RaceConfigInputs : CalcRead(p, config)
    \/ \E p \in ProcIds, config \in RaceConfigInputs : CalcWrite(p, config)

SpecRace == Init /\ [][NextRace]_vars

(***************************************************************************)
(* Where a notification goes: SendNotificationAction, check_and_notify and *)
(* NotificationManager.send_notification.                                  *)
(***************************************************************************)
MaxChainDepth == 2

NotificationRow(recipient_type, notification_type) ==
    [ recipient_type |-> recipient_type, notification_type |-> notification_type ]

\* send_notification creates the in-app row and sends the mail; it calls
\* neither the engine nor check_and_notify, so it raises no event
EventsRaisedBy_SameType(row) ==
    << row.notification_type >>

EventsRaisedBy(row) ==
    << >>

\* the rows that follow from a row created after depth re-injections, each
\* with the number of re-injections before it
RECURSIVE ChainFrom(_, _, _, _)
ChainFrom(row, ctx, enabled, depth) ==
    LET raised == EventsRaisedBy(row)
    IN  IF raised = <<>> \/ depth >= MaxChainDepth THEN <<>>
        ELSE LET r == check_and_notify(raised[1], ctx, enabled)
             IN  IF r.sent = <<>> THEN <<>>
                 ELSE << [row |-> r.sent[1], depth |-> depth + 1] >>
                      \o ChainFrom(r.sent[1], ctx, enabled, depth + 1)

ChainOf(rows, ctx, enabled) ==
    IF rows = <<>> THEN <<>>
    ELSE << [row |-> rows[1], depth |-> 0] >> \o ChainFrom(rows[1], ctx, enabled, 0)

RowsOf(chain) == [ n \in 1..Len(chain) |-> chain[n].row ]

\* config.get(key, default) of an action's config
NoConfigValue == "<missing>"
ConfigGet(config, key, default) ==
    IF config[key] = NoConfigValue THEN default ELSE config[key]

\* SendNotificationAction.execute, run by Workflow.execute for an action of
\* type send_notification
SendNotificationAction(ctx, config) ==
    LET row == NotificationRow(ConfigGet(config, "recipient_type", "admin"),
                               ConfigGet(config, "notification_type", "info"))
        chain == ChainOf(<<row>>, ctx, rule_enabled)
    IN  /\ Len(sent) + Len(chain) <= MaxNotifications
        /\ sent' = sent \o RowsOf(chain)
        /\ op_ret' = [ op |-> "send_notification", chain |-> chain ]
        /\ last_scan' = -1
        /\ UNCHANGED <<now, tasks, engineVars, notifyVars, calendarVars,
                       builderVars, procs, project_progress, sessions>>

\* check_and_notify, with the rows it makes stored
NotifyEvent(event_type, ctx) ==
    LET r == check_and_notify(event_type, ctx, rule_enabled)
        chain == ChainOf(r.sent, ctx, rule_enabled)
    IN  /\ Len(sent) + Len(chain) <= MaxNotifications
        /\ sent' = sent \o RowsOf(chain)
        /\ op_ret' = [ op |-> "check_and_notify", chain |-> chain ]
        /\ last_scan' = -1
        /\ UNCHANGED <<now, tasks, engineVars, notifyVars, calendarVars,
                       builderVars, procs, project_progress, sessions>>

ConfigInputs ==
    { [ recipient_type |-> r, notification_type |-> t ] :
        r \in { NoConfigValue, "client" }, t \in { NoConfigValue, "task_due" } }
InjectEventInputs == { "task_due", "new_inquiry" }
InjectContextInputs ==
    { NotifyContext(st, Missing, NoSignature, Missing, Missing) :
        st \in { "new", "done" } }

NextInject ==
    \/ \E ctx \in InjectContextInputs, config \in ConfigInputs :
          SendNotificationAction(ctx, config)
    \/ \E t \in InjectEventInputs, ctx \in InjectContextInputs : NotifyEvent(t, ctx)

SpecInject == Init /\ [][NextInject]_vars

(***************************************************************************)
(* The calendar: events stored, a checker built and asked.                 *)
(***************************************************************************)
\* CalendarDB.add_event
AddEvent(start_date, end_date, all_day) ==
    /\ Len(events) < MaxEvents
    /\ events' = Append(events,
                        EventRow(Len(events) + 1, start_date, end_date, all_day))
    /\ cal_ret' = NoCalendarCall
    /\ UNCHANGED <<checker_db, engineVars, reminderVars, notifyVars, builderVars>>
    /\ OthersIdle

\* EventConflictChecker(db)
NewChecker(db) ==
    /\ checker_db # db
    /\ checker_db' = db
    /\ cal_ret' = NoCalendarCall
    /\ UNCHANGED <<events, engineVars, reminderVars, notifyVars, builderVars>>
    /\ OthersIdle

CheckConflict(start_date, end_date, exclude_event_id) ==
    LET r == check_conflict(checker_db, events, start_date, end_date,
                            exclude_event_id)
    IN  /\ cal_ret' = [ called |-> TRUE, op |-> "check_conflict",
                        args |-> [ start_date |-> start_date,
                                   end_date |-> end_date,
                                   exclude_event_id |-> exclude_event_id ],
                        outcome |-> r.outcome, error |-> r.error,
                        result |-> r.result ]
        /\ UNCHANGED <<events, checker_db, engineVars, reminderVars, notifyVars, builderVars>>
        /\ OthersIdle

FindAvailableSlots(date, duration_minutes, work_start, work_end) ==
    LET r == find_available_slots(checker_db, events, date, duration_minutes,
                                  work_start, work_end)
    IN  /\ cal_ret' = [ called |-> TRUE, op |-> "find_available_slots",
                        args |-> [ date |-> date,
                                   duration_minutes |-> duration_minutes,
                                   work_start |-> work_start,
                                   work_end |-> work_end ],
                        outcome |-> r.outcome, error |-> r.error,
                        result |-> r.result ]
        /\ UNCHANGED <<events, checker_db, engineVars, reminderVars, notifyVars, builderVars>>
        /\ OthersIdle

\* stored events on the hours 10:00, 11:00 and 12:00 of day 0, the end
\* absent or not before the start; two of them all-day
ConflictEventInputs ==
    { <<Stamp(0, h1, 0), Stamp(0, h2, 0), FALSE>> :
        h1 \in {10, 11}, h2 \in {11, 12} }
    \cup { <<Stamp(0, h1, 0), NoStamp, FALSE>> : h1 \in {10, 11} }
    \cup { <<Stamp(0, 10, 0), NoStamp, TRUE>>,
           <<Stamp(0, 10, 0), Stamp(0, 12, 0), TRUE>> }

\* candidate intervals, the end absent or not before the start
CandidateStamps ==
    { Stamp(0, 10, 0), Stamp(0, 10, 30), Stamp(0, 10, 45), Stamp(0, 11, 0),
      Stamp(0, 12, 0) }
CandidateInputs ==
    { <<a, b>> \in (CandidateStamps \ {Stamp(0, 10, 45)})
                    \X ((CandidateStamps \ {Stamp(0, 10, 0), Stamp(0, 10, 30)})
                        \cup {NoStamp}) :
        b = NoStamp \/ fromisoformat(a) <= fromisoformat(b) }
ExcludeInputs == { NoExclude, 1, 2 }

NextConflict ==
    \/ \E ev \in ConflictEventInputs : AddEvent(ev[1], ev[2], ev[3])
    \/ \E db \in DbKinds : NewChecker(db)
    \/ \E c \in CandidateInputs, x \in ExcludeInputs : CheckConflict(c[1], c[2], x)

SpecConflict == Init /\ [][NextConflict]_vars

\* stored events for the slot search: on day 0 between 09:00 and 11:00,
\* one with no end, two all-day, and one on day 1
SlotEventInputs ==
    { <<Stamp(0, 9, 0), Stamp(0, 10, 0), FALSE>>,
      <<Stamp(0, 9, 15), Stamp(0, 9, 45), FALSE>>,
      <<Stamp(0, 10, 0), Stamp(0, 10, 30), FALSE>>,
      <<Stamp(0, 9, 30), Stamp(0, 9, 30), FALSE>>,
      <<Stamp(0, 10, 0), NoStamp, FALSE>>,
      <<Stamp(0, 9, 0), Stamp(0, 11, 0), TRUE>>,
      <<Stamp(0, 9, 0), NoStamp, TRUE>>,
      <<Stamp(1, 9, 0), Stamp(1, 10, 0), FALSE>> }
DurationInputs == { 30, 60, 90 }
WorkHourInputs == { <<9, 11>>, <<9, 18>> }

NextSlots ==
    \/ \E ev \in SlotEventInputs : AddEvent(ev[1], ev[2], ev[3])
    \/ \E db \in DbKinds : NewChecker(db)
    \/ \E d \in DurationInputs, w \in WorkHourInputs :
          FindAvailableSlots(0, d, w[1], w[2])

SpecSlots == Init /\ [][NextSlots]_vars

(***************************************************************************)
(* Properties of dispatch and execution.                                   *)
(***************************************************************************)
\* the workflow, report and handler calls of the j-th execution of the call
RetWorkflow(j) == workflows[ret.executed[j]]
RetTrace(j) == SelectSeq(ret.trace, LAMBDA e : e.wf = ret.executed[j])
RetHandler(j, k) == engine_actions[RetWorkflow(j).actions[k]]
ActionsWith(j, hs) ==
    { k \in 1..Len(RetWorkflow(j).actions) : RetHandler(j, k) \in hs }
Dispatched == ret.op = "execute_trigger"
Executions == 1..Len(ret.executed)

\* positions of the workflows a dispatch of (trigger_type, context) selects:
\* matching trigger, active, condition absent or true
Selected(trigger_type, context) ==
    SelectSeq([i \in 1..Len(workflows) |-> i],
              LAMBDA i : /\ workflows[i].trigger_type = trigger_type
                         /\ workflows[i].is_active
                         /\ \/ workflows[i].condition = NoCondition
                            \/ CallCondition(workflows[i].condition, context) = "true")

\* positions of the matching active workflows whose condition raises
Raising(trigger_type, context) ==
    { i \in 1..Len(workflows) :
        /\ workflows[i].trigger_type = trigger_type
        /\ workflows[i].is_active
        /\ workflows[i].condition # NoCondition
        /\ CallCondition(workflows[i].condition, context) = "raise" }

\* C1: execute_trigger(t, ctx) returns exactly one report for each registered
\* workflow with trigger_type t that is active and whose condition is absent
\* or true on ctx, in registration order, and no report for any other.
C1_DispatchReturnsSelected ==
    Dispatched =>
        LET sel == Selected(ret.trigger_type, ret.context)
        IN  /\ Len(ret.results) = Len(sel)
            /\ \A j \in 1..Len(sel) :
                   ret.results[j].workflow_id = workflows[sel[j]].id

\* C2: no action of a workflow is executed and no report is produced by a
\* dispatch made while the workflow's is_active flag is false.
C2_InactiveNeverDispatched ==
    Dispatched =>
        /\ \A j \in Executions : RetWorkflow(j).is_active
        /\ \A n \in 1..Len(ret.trace) : workflows[ret.trace[n].wf].is_active

\* a dispatch that skipped an inactive workflow it would otherwise have run,
\* and ran an active one, calling a handler
C2_Witness ==
    /\ Dispatched
    /\ \E i \in 1..Len(workflows) :
          /\ ~workflows[i].is_active
          /\ workflows[i].trigger_type = ret.trigger_type
          /\ workflows[i].condition = NoCondition
          /\ workflows[i].actions # <<>>
    /\ Len(ret.executed) = 1
    /\ Len(ret.trace) > 0

\* C3: a condition that raises does not abort the dispatch: the rule whose
\* condition raised is not executed, and every other matching active rule
\* whose condition holds is executed and reported.
C3_RaisingConditionDoesNotAbort ==
    (Dispatched /\ Raising(ret.trigger_type, ret.context) # {}) =>
        /\ ret.outcome = "returned"
        /\ \A j \in Executions :
               ret.executed[j] \notin Raising(ret.trigger_type, ret.context)
        /\ ret.executed = Selected(ret.trigger_type, ret.context)
        /\ Len(ret.results) = Len(ret.executed)

\* the handler-call events of execution j come in pairs (call k, completion
\* of k), with k strictly increasing from pair to pair
CallsInOrder(j) ==
    LET tr == RetTrace(j)
    IN  /\ Len(tr) % 2 = 0
        /\ \A n \in 1..Len(tr) :
              IF n % 2 = 1
              THEN /\ tr[n].ev = "call"
                   /\ n > 1 => tr[n - 1].idx < tr[n].idx
              ELSE /\ tr[n].ev \in {"return", "raise"}
                   /\ tr[n].idx = tr[n - 1].idx

\* the action indexes whose handler returned, in the order of the returns
ReturnedIdx(j) ==
    LET rs == SelectSeq(RetTrace(j), LAMBDA e : e.ev = "return")
    IN  [m \in 1..Len(rs) |-> rs[m].idx]

\* C4: within one Workflow.execute the handlers are called in the order of
\* the actions list, each call completing before the next starts, and the
\* outcomes appear in the same relative order as their actions.
C4_ActionsInListOrder ==
    \A j \in Executions :
        /\ CallsInOrder(j)
        /\ Len(ret.results[j].actions) = Len(ReturnedIdx(j))
        /\ \A m \in 1..Len(ReturnedIdx(j)) :
              ret.results[j].actions[m].action_type =
                  RetWorkflow(j).actions[ReturnedIdx(j)[m]]

\* three actions of three different kinds of outcome, the last two returning
C4_Witness ==
    \E j \in Executions :
        /\ Len(RetWorkflow(j).actions) = 3
        /\ RetWorkflow(j).actions[1] # RetWorkflow(j).actions[3]
        /\ RetHandler(j, 1) = "returns"
        /\ RetHandler(j, 3) = "returns"
        /\ Len(ret.results[j].actions) = 2

\* C5: when the handler of action k raises, every later action is still
\* looked up and executed, the actions whose handlers succeed each
\* contribute an outcome, the message is appended to errors, success is false.
C5_PartialFailureContinues ==
    \A j \in Executions :
        ActionsWith(j, {"raises"}) # {} =>
            /\ \A k \in ActionsWith(j, {"returns", "raises"}) :
                  \E n \in 1..Len(RetTrace(j)) :
                      RetTrace(j)[n].ev = "call" /\ RetTrace(j)[n].idx = k
            /\ Len(ret.results[j].actions) = Cardinality(ActionsWith(j, {"returns"}))
            /\ \A k \in ActionsWith(j, {"returns"}) :
                  \E m \in 1..Len(ret.results[j].actions) :
                      ret.results[j].actions[m].action_type = RetWorkflow(j).actions[k]
            /\ Cardinality({ m \in 1..Len(ret.results[j].errors) :
                                ret.results[j].errors[m] = "handler failed" })
                   = Cardinality(ActionsWith(j, {"raises"}))
            /\ ret.results[j].success = FALSE

\* the 3-action rule whose second handler raises: actions 1 and 3 produce
\* outcomes
C5_Witness ==
    \E j \in Executions :
        /\ Len(RetWorkflow(j).actions) = 3
        /\ RetHandler(j, 1) = "returns"
        /\ RetHandler(j, 2) = "raises"
        /\ RetHandler(j, 3) = "returns"
        /\ Len(ret.results[j].actions) = 2
        /\ ret.results[j].success = FALSE

\* the errors a report must hold: one per action whose handler is missing
\* or raised, in the order of the actions
RECURSIVE ExpectedErrors(_, _, _)
ExpectedErrors(j, k, missingPrefix) ==
    IF k > Len(RetWorkflow(j).actions) THEN <<>>
    ELSE (IF RetHandler(j, k) = NoHandler
          THEN << missingPrefix \o RetWorkflow(j).actions[k] >>
          ELSE IF RetHandler(j, k) = "raises" THEN << "handler failed" >>
          ELSE <<>>)
         \o ExpectedErrors(j, k + 1, missingPrefix)

MissingHandlerContract(j, missingPrefix) ==
    /\ ret.results[j].errors = ExpectedErrors(j, 1, missingPrefix)
    /\ \A m \in 1..Len(ret.results[j].actions) :
          \E k \in ActionsWith(j, {"returns"}) :
              ret.results[j].actions[m].action_type = RetWorkflow(j).actions[k]
    /\ Len(ret.results[j].actions) = Cardinality(ActionsWith(j, {"returns"}))
    /\ ActionsWith(j, {"raises"}) = {} => ret.results[j].success = TRUE
    /\ ( RetWorkflow(j).actions = << "unknown_action" >>
         /\ RetHandler(j, 1) = NoHandler ) =>
          /\ ret.results[j].errors = << missingPrefix \o "unknown_action" >>
          /\ ret.results[j].actions = <<>>
          /\ ret.results[j].success = TRUE

\* C6 as stated: a missing handler appends exactly
\* "no handler found for action: <type>" to errors, adds no outcome,
\* continues, and leaves success unchanged.
C6_MissingHandlerLowercase ==
    \A j \in Executions : MissingHandlerContract(j, "no handler found for action: ")

\* C6 (amended): a missing handler appends exactly
\* "No handler found for action: <type>" (capital N) to errors, adds no
\* outcome for that action, continues with the next action, and leaves
\* success unchanged; a rule whose only action is "unknown_action" yields
\* errors == ["No handler found for action: unknown_action"], no outcomes,
\* success true.
C6_MissingHandlerMessage ==
    \A j \in Executions : MissingHandlerContract(j, "No handler found for action: ")

\* the single-action rule of unknown type, executed with no handler
\* registered for it
C6_Witness ==
    \E j \in Executions :
        /\ RetWorkflow(j).actions = << "unknown_action" >>
        /\ RetHandler(j, 1) = NoHandler
        /\ ret.results[j].errors = << "No handler found for action: unknown_action" >>

\* C7: the report of a rule with N actions holds exactly one record per
\* action, an outcome or an error: len(outcomes) + len(errors) == N.
C7_OneRecordPerAction ==
    \A j \in Executions :
        /\ Len(ret.results[j].actions) + Len(ret.results[j].errors)
               = Len(RetWorkflow(j).actions)
        /\ Len(ret.results[j].actions) = Cardinality(ActionsWith(j, {"returns"}))
        /\ Len(ret.results[j].errors)
               = Cardinality(ActionsWith(j, {NoHandler, "raises"}))

\* a rule with one action of each kind: returning, raising, missing
C7_Witness ==
    \E j \in Executions :
        /\ Len(RetWorkflow(j).actions) = 3
        /\ ActionsWith(j, {"returns"}) # {}
        /\ ActionsWith(j, {"raises"}) # {}
        /\ ActionsWith(j, {NoHandler}) # {}

\* C8: success is false iff at least one handler raised; all handlers
\* returning gives success, no errors and N outcomes; missing handlers
\* alone never make success false.
C8_SuccessIffNoHandlerRaised ==
    \A j \in Executions :
        /\ ret.results[j].success = FALSE <=> ActionsWith(j, {"raises"}) # {}
        /\ ActionsWith(j, {NoHandler, "raises"}) = {} =>
              /\ ret.results[j].success = TRUE
              /\ ret.results[j].errors = <<>>
              /\ Len(ret.results[j].actions) = Len(RetWorkflow(j).actions)

\* a rule with a missing handler and a returning one, and success still true
C8_Witness ==
    \E j \in Executions :
        /\ ActionsWith(j, {NoHandler}) # {}
        /\ ActionsWith(j, {"returns"}) # {}
        /\ ActionsWith(j, {"raises"}) = {}
        /\ ret.results[j].success = TRUE
        /\ ret.results[j].errors # <<>>

(***************************************************************************)
(* Properties of the reminder scan.                                        *)
(***************************************************************************)
\* A task_due row is the reminder of the 24-hour offset (it is sent the day
\* before the due date); the scan sends no row for any other offset.
SentBefore == SubSeq(sent, 1, Len(sent) - last_scan)
SentByScan == SubSeq(sent, Len(sent) - last_scan + 1, Len(sent))

ReminderRows(rows, task_id, offset) ==
    { n \in 1..Len(rows) :
        /\ offset = 24
        /\ rows[n].notification_type = "task_due"
        /\ rows[n].task_id = task_id }

TaskDueOffsets == { reminder_hours("task_due")[n] : n \in 1..Len(reminder_hours("task_due")) }

\* C9: across any sequence of scans at most one reminder notification is
\* sent for each (entity id, reminder offset) pair.
C9_AtMostOnceReminder ==
    \A id \in 1..Len(tasks) : \A o \in TaskDueOffsets :
        Cardinality(ReminderRows(sent, id, o)) <= 1

\* now lies in the window of offset o before due time D that one scan covers
InWindow(D, o, time) ==
    D - o <= time /\ time < D - o + ScanIntervalHours

\* C10: a scan fires the reminder of offset o for an open task with due time
\* D and no earlier reminder of that offset exactly when o is a configured
\* offset and D - o <= now < D - o + scanInterval.
C10_FiresExactlyInWindow ==
    last_scan >= 0 =>
        \A id \in 1..Len(tasks) : \A o \in TaskDueOffsets :
            ( /\ tasks[id].due_date # NullDate
              /\ tasks[id].status # "done"
              /\ ReminderRows(SentBefore, id, o) = {} ) =>
                ( ReminderRows(SentByScan, id, o) # {}
                    <=> InWindow(tasks[id].due_date, o, now) )

(***************************************************************************)
(* Properties of check_and_notify and the default rules.                   *)
(***************************************************************************)
\* the rule that was in force for the call just made: it exists and is enabled
RuleInForce ==
    /\ notify_ret.event_type \in NotificationEventType
    /\ rule_enabled[notify_ret.event_type]

\* the notification the call should send when it sends one
OneNotification ==
    << [recipient_type |-> "admin", notification_type |-> notify_ret.event_type] >>

\* C11: check_and_notify returns false and sends nothing when no rule exists
\* for the event type or the rule is not enabled; otherwise it returns true
\* and sends exactly one notification iff the rule's predicate holds on the
\* context, and returns false and sends nothing iff it does not.
C11_CheckAndNotifyGate ==
    notify_ret.called =>
        IF RuleInForce /\ RuleHandler(notify_ret.event_type, notify_ret.context)
        THEN notify_ret.returned /\ notify_ret.sent = OneNotification
        ELSE ~notify_ret.returned /\ notify_ret.sent = <<>>

\* a disabled rule whose predicate holds was checked, and an enabled one fired
C11_Witness ==
    /\ notify_ret.called
    /\ notify_ret.event_type = "ai_usage_limit"
    /\ ~rule_enabled["ai_usage_limit"]
    /\ notify_ret.context.monthly_cost = PyInt(51)
    /\ ~notify_ret.returned

\* C12: the task_overdue rule notifies only when the context's due date is
\* earlier than the current time and the status is not done; for a due date
\* in the future or equal to now it does not notify, whatever the status.
C12_OverdueOnlyPastDue ==
    (notify_ret.called /\ notify_ret.event_type = "task_overdue"
        /\ notify_ret.returned) =>
        /\ notify_ret.context.due_date.kind = "int"
        /\ notify_ret.context.due_date.val < now
        /\ notify_ret.context.status # "done"

\* the predicates of spec section 4.3, stated on the context alone
TableStatus(ctx) == ctx.status
TablePresent(v) == v.kind = "int"
TablePredicate(event_type, ctx) ==
    CASE event_type = "task_due" -> TableStatus(ctx) # "done"
      [] event_type \in {"payment_due", "payment_overdue"} ->
            TableStatus(ctx) = "pending"
      [] event_type = "new_inquiry" -> TableStatus(ctx) = "new"
      [] event_type = "quotation_approved" -> TableStatus(ctx) = "approved"
      [] event_type = "contract_signed" ->
            ctx.client_signature = "signed"
      [] event_type = "project_milestone" ->
            /\ TablePresent(ctx.progress)
            /\ \E q \in 1..4 : ctx.progress.val = 25 * q
      [] event_type = "ai_usage_limit" ->
            /\ TablePresent(ctx.monthly_cost)
            /\ ~(ctx.monthly_cost.val < 50)
      [] OTHER -> FALSE

TableEvents == NotificationEventType \ { "task_overdue" }

ConflictReturned ==
    cal_ret.called /\ cal_ret.op = "check_conflict" /\ cal_ret.outcome = "returned"

\* the candidate interval of the call just made
CandidateStart == fromisoformat(cal_ret.args.start_date)
CandidateEnd ==
    IF cal_ret.args.end_date = NoStamp THEN CandidateStart
    ELSE fromisoformat(cal_ret.args.end_date)

\* the ids of the events the call returned
ResultIds == { cal_ret.result[n].id : n \in 1..Len(cal_ret.result) }

\* the closed interval of a stored event: its start, and its end or, with
\* no end stored, its start again
StoredStart(i) == fromisoformat(events[i].start_date)
StoredEnd(i) ==
    IF events[i].end_date = NoStamp THEN StoredStart(i)
    ELSE fromisoformat(events[i].end_date)

\* C14: check_conflict(start, end, exclude) returns exactly the stored
\* events, other than the one whose id is exclude, whose closed interval
\* [s2, e2] satisfies NOT (end < s2 OR start > e2): every overlapping event is
\* returned, each once, and a candidate strictly inside an event (10:30-10:45
\* against 10:00-11:00) returns that event.
C14_ConflictsAreTheOverlapping ==
    ConflictReturned =>
        /\ ResultIds =
              { i \in 1..Len(events) :
                  /\ i # cal_ret.args.exclude_event_id
                  /\ ~(CandidateEnd < StoredStart(i) \/ CandidateStart > StoredEnd(i)) }
        /\ Cardinality(ResultIds) = Len(cal_ret.result)
        /\ \A n \in 1..Len(cal_ret.result) :
              cal_ret.result[n] = events[cal_ret.result[n].id]

\* 10:30-10:45 was asked against a stored 10:00-11:00 while another event
\* was excluded, and the stored event came back
C14_Witness ==
    /\ ConflictReturned
    /\ cal_ret.args.start_date = Stamp(0, 10, 30)
    /\ cal_ret.args.end_date = Stamp(0, 10, 45)
    /\ cal_ret.args.exclude_event_id = 2
    /\ Len(events) = 2
    /\ events[1].start_date = Stamp(0, 10, 0)
    /\ events[1].end_date = Stamp(0, 11, 0)
    /\ ResultIds = {1}

\* event j is among the conflicts of event i's own interval
ConflictsWith(i, j) ==
    LET r == check_conflict("CalendarDB", events, events[i].start_date,
                            events[i].end_date, i)
    IN  \E n \in 1..Len(r.result) : r.result[n].id = j

\* C15: overlap is symmetric: for any two stored events A and B, B is a
\* conflict of A's interval iff A is a conflict of B's interval; intervals
\* that only touch at an endpoint ([10:00,11:00] and [11:00,12:00]) conflict
\* in both directions.
C15_OverlapSymmetric ==
    \A i, j \in 1..Len(events) :
        i # j =>
            /\ ConflictsWith(i, j) <=> ConflictsWith(j, i)
            /\ StoredEnd(i) = StoredStart(j) => ConflictsWith(i, j) /\ ConflictsWith(j, i)

\* 10:00-11:00 and 11:00-12:00 are both stored, and asking for 10:00-11:00
\* returned the event that starts at 11:00
C15_Witness ==
    /\ ConflictReturned
    /\ Len(events) = 2
    /\ events[1].start_date = Stamp(0, 10, 0) /\ events[1].end_date = Stamp(0, 11, 0)
    /\ events[2].start_date = Stamp(0, 11, 0) /\ events[2].end_date = Stamp(0, 12, 0)
    /\ cal_ret.args.start_date = Stamp(0, 10, 0)
    /\ cal_ret.args.end_date = Stamp(0, 11, 0)
    /\ 2 \in ResultIds

\* the events the call compared: all but the excluded one
Compared == { i \in 1..Len(events) : i # cal_ret.args.exclude_event_id }

\* the candidate interval contains the instant t
CandidateCovers(t) == CandidateStart <= t /\ t <= CandidateEnd

\* C16 as stated: every stored event that is all-day or has no end time is
\* compared as the point interval [start, start], even when an all-day event
\* carries an end date later than its start.
C16_AllDayComparedAsPoint ==
    ConflictReturned =>
        \A i \in Compared :
            (events[i].all_day \/ events[i].end_date = NoStamp) =>
                (i \in ResultIds <=> CandidateCovers(StoredStart(i)))

\* C16: every stored event with no end time is compared as the point
\* interval [start, start], all-day or not; an all-day event that carries an
\* end date is compared as the interval [start, end_date].
C16_EndlessComparedAsPoint ==
    ConflictReturned =>
        \A i \in Compared :
            /\ events[i].end_date = NoStamp =>
                  (i \in ResultIds <=> CandidateCovers(StoredStart(i)))
            /\ (events[i].all_day /\ events[i].end_date # NoStamp) =>
                  (i \in ResultIds <=>
                      /\ CandidateStart <= fromisoformat(events[i].end_date)
                      /\ StoredStart(i) <= CandidateEnd)

\* an all-day event 10:00-12:00 was returned for a candidate that starts
\* after the event's start
C16_Witness ==
    /\ ConflictReturned
    /\ \E i \in ResultIds :
          /\ events[i].all_day
          /\ events[i].end_date = Stamp(0, 12, 0)
          /\ StoredStart(i) < CandidateStart
    /\ \E i \in Compared : events[i].end_date = NoStamp

(***************************************************************************)
(* Properties of find_available_slots.                                     *)
(***************************************************************************)
SlotsCalled == cal_ret.called /\ cal_ret.op = "find_available_slots"
SlotsReturned == SlotsCalled /\ cal_ret.outcome = "returned"

\* the events supplied to the search: those stored on the date asked for
\* that are not all-day
Supplied ==
    { i \in 1..Len(events) :
        events[i].start_date.day = cal_ret.args.date /\ ~events[i].all_day }

\* the time an event occupies, [start, end), an event with no end time
\* ending at its start
BusyFrom(i) == fromisoformat(events[i].start_date)
BusyUntil(i) ==
    IF events[i].end_date = NoStamp THEN BusyFrom(i)
    ELSE fromisoformat(events[i].end_date)

\* some instant lies both in [from, until) and in event i
Intersects(from, until, i) ==
    \E t \in from..(until - 1) : BusyFrom(i) <= t /\ t < BusyUntil(i)

WorkFrom == fromisoformat(Stamp(cal_ret.args.date, cal_ret.args.work_start, 0))
WorkUntil == fromisoformat(Stamp(cal_ret.args.date, cal_ret.args.work_end, 0))

\* C17: each start s returned by find_available_slots for duration d is such
\* that [s, s+d) intersects no supplied event that is not all-day, and lies
\* within the working hours [workStart, workEnd).
C17_ReturnedSlotsAreFree ==
    SlotsReturned =>
        \A n \in 1..Len(cal_ret.result) :
            LET s == fromisoformat(cal_ret.result[n])
                d == cal_ret.args.duration_minutes
            IN  /\ \A i \in Supplied : ~Intersects(s, s + d, i)
                /\ WorkFrom <= s /\ s + d <= WorkUntil

\* with 09:00-10:00 and 10:00-10:30 stored, a 30-minute search over 9-11
\* returned 10:30 alone
C17_Witness ==
    /\ SlotsReturned
    /\ cal_ret.args.duration_minutes = 30
    /\ cal_ret.args.work_end = 11
    /\ Cardinality(Supplied) = 2
    /\ cal_ret.result = << Stamp(0, 10, 30) >>

\* the half-hour cells of the working hours, by their start in minutes
Cells == { c \in WorkFrom..(WorkUntil - 1) : (c - WorkFrom) % SlotMinutes = 0 }
CellFree(c) == \A i \in Supplied : ~Intersects(c, c + SlotMinutes, i)
\* c begins a maximal run of free cells that lasts until the cell at e
RunFrom(c, e) ==
    /\ \A x \in Cells : (c <= x /\ x < e) => CellFree(x)
    /\ (c - SlotMinutes) \in Cells => ~CellFree(c - SlotMinutes)
    /\ e \in Cells => ~CellFree(e)
\* the starts the search is to return
QualifyingStarts ==
    { c \in Cells :
        \E e \in (Cells \cup {WorkUntil}) :
            /\ c < e
            /\ RunFrom(c, e)
            /\ e - c >= cal_ret.args.duration_minutes }

\* C18: find_available_slots returns, in ascending order, exactly the first
\* cell of each maximal run of available half-hour cells over the working
\* hours whose length in minutes is at least the duration (a run reaching
\* workEnd included), one start per run, a cell being unavailable iff it
\* overlaps an event that is not all-day; with one 09:00-10:00 event, hours
\* 9-18 and duration 60 the first start returned is 10:00.
C18_SlotsAreRunStarts ==
    (SlotsCalled /\ HasMethod(checker_db, "get_events_by_date")) =>
        /\ cal_ret.outcome = "returned"
        /\ { fromisoformat(cal_ret.result[n]) : n \in 1..Len(cal_ret.result) }
              = QualifyingStarts
        /\ \A n \in 1..(Len(cal_ret.result) - 1) :
              fromisoformat(cal_ret.result[n]) < fromisoformat(cal_ret.result[n + 1])

\* C19: check_conflict and find_available_slots return data and never end
\* in an error for any list of well-formed events, a not all-day event with
\* no end time included.
C19_ChecksNeverRaise ==
    (cal_ret.called /\
        HasMethod(checker_db,
                  IF cal_ret.op = "check_conflict" THEN "get_all_events"
                  ELSE "get_events_by_date")) =>
        cal_ret.outcome = "returned"

(***************************************************************************)
(* Properties of the templates and the builder.                            *)
(***************************************************************************)
\* C20: every workflow held by the engine or produced by the default
\* templates or by WorkflowBuilder has a non-empty actions list: in every
\* reachable state each registered workflow, a template or builder-made, has
\* at least one action, and so has each workflow build returns.
C20_WorkflowsHaveActions ==
    /\ \A n \in 1..Len(workflows) : Len(workflows[n].actions) >= 1
    /\ build_ret.outcome = "returned" => Len(build_ret.workflow.actions) >= 1

\* C21: rule ids are unique: after any sequence of register_workflow calls,
\* templates and builder-made workflows included, no two workflows of the
\* engine have the same id.
C21_WorkflowIdsUnique ==
    \A i, j \in 1..Len(workflows) :
        i # j => workflows[i].id # workflows[j].id

\* C22: a definition with no name, no trigger or an empty action list fails
\* validation: build raises and produces no Workflow in each of the three
\* cases, and returns a Workflow only when all three are present.
C22_BuildValidates ==
    build_ret.outcome # "none" =>
        LET incomplete ==
                \/ builder.name \in {NoName, ""}
                \/ builder.trigger_type = NoTrigger
                \/ Len(builder.actions) = 0
        IN  /\ incomplete => (build_ret.outcome = "raised"
                                /\ build_ret.workflow = NoWorkflow)
            /\ ~incomplete => build_ret.outcome = "returned"

(***************************************************************************)
(* Properties of the notification chain.                                   *)
(***************************************************************************)
ChainMade == op_ret.op \in { "send_notification", "check_and_notify" }

\* C23: re-injection is bounded: in the chain dispatch, action,
\* notification, re-injected event, no notification lies more than one
\* re-injection deep and none follows from a notification of the same type,
\* so a dispatch ends with finitely many notifications (here at most one per
\* notifying action).
C23_ReinjectionBounded ==
    ChainMade =>
        /\ \A n \in 1..Len(op_ret.chain) : op_ret.chain[n].depth <= 1
        /\ \A n \in 2..Len(op_ret.chain) :
              op_ret.chain[n].row.notification_type
                 # op_ret.chain[n - 1].row.notification_type
        /\ Len(op_ret.chain) <= 2
        /\ SubSeq(sent, Len(sent) - Len(op_ret.chain) + 1, Len(sent))
              = RowsOf(op_ret.chain)

\* an action whose notification carries an event type as its type made its
\* row, after a task_due event had made one, and nothing followed from it
C23_Witness ==
    /\ op_ret.op = "send_notification"
    /\ Len(op_ret.chain) = 1
    /\ op_ret.chain[1].row.notification_type = "task_due"
    /\ Len(sent) = 2
    /\ sent[1] = NotificationRow("admin", "task_due")

(***************************************************************************)
(* Properties of concurrent callers.                                       *)
(***************************************************************************)
\* C24: two invocations of the reminder scan never overlap: at no point are
\* two executions of check_and_send_reminders both between their start and
\* their end.
C24_ScansNeverOverlap ==
    \A p, q \in ProcIds :
        (p # q /\ procs[p].pc = "scanning") => procs[q].pc # "scanning"

\* the progress the task list stands for: the whole percentage of done tasks
DoneTasks == { n \in 1..Len(tasks) : tasks[n].status = "done" }
PercentDone ==
    IF Len(tasks) = 0 THEN 0
    ELSE CHOOSE k \in 0..100 :
            /\ k * Len(tasks) <= 100 * Cardinality(DoneTasks)
            /\ (k + 1) * Len(tasks) > 100 * Cardinality(DoneTasks)

AllIdle == \A p \in ProcIds : procs[p].pc = "idle"

\* C25: when two dispatches run at the same time, their actions on the same
\* project are serialized: once both have finished, the stored progress
\* equals the value computed from the final task list.
C25_ConcurrentWritesSerialized ==
    (AllIdle /\ op_ret.op = "calculate_value") => project_progress = PercentDone

\* C26: the calculate_value handler with type project_progress sets the
\* project's progress to floor(100 * done / total) of the project's current
\* task list, 0 with no tasks, whatever progress was stored before; so
\* running it again with no task change leaves the same progress.
C26_ProgressFromTaskList ==
    (op_ret.op = "calculate_value" /\ op_ret.config.type = "project_progress") =>
        /\ op_ret.calculated
        /\ project_progress = PercentDone

(***************************************************************************)
(* Properties of create_recurring_event.                                   *)
(***************************************************************************)
RecurReturned == cal_ret.called /\ cal_ret.op = "create_recurring_event"

\* the rows the call added
CreatedRows == (cal_ret.stored_before + 1)..Len(events)
\* the last day the call may create an event on
LastDay ==
    IF cal_ret.args.recurrence_end = NoDate
    THEN cal_ret.args.start_date + DaysPerYear
    ELSE cal_ret.args.recurrence_end
\* the days of the period steps; a month is not a fixed number of days, so
\* for monthly only the first day is named
StepDays ==
    LET first == cal_ret.args.start_date
        rec == cal_ret.args.recurrence
        every == CASE rec = "daily" -> 1
                   [] rec = "weekly" -> 7
                   [] rec = "yearly" -> 365
                   [] OTHER -> 0
    IN  IF every = 0 THEN { first }
        ELSE { day \in first..LastDay : (day - first) % every = 0 }

\* C27: for daily, weekly, monthly and yearly and an end not before the
\* start, create_recurring_event creates one event at start_date and one at
\* every later period step not after the end (default start + 365 days) and
\* returns the ids of exactly the events it created.
C27_RecurringEventsCreated ==
    (RecurReturned
        /\ cal_ret.args.recurrence \in { "daily", "weekly", "monthly", "yearly" }
        /\ LastDay >= cal_ret.args.start_date) =>
        /\ { cal_ret.result[n] : n \in 1..Len(cal_ret.result) } = CreatedRows
        /\ StepDays \subseteq { events[i].start_date.day : i \in CreatedRows }
        /\ \A i \in CreatedRows :
              /\ events[i].start_date.day >= cal_ret.args.start_date
              /\ events[i].start_date.day <= LastDay

(***************************************************************************)
(* Properties of execute_workflow.                                         *)
(***************************************************************************)
ExecutedById == ret.op = "execute_workflow"
WithId == { i \in 1..Len(workflows) : workflows[i].id = ret.workflow_id }

\* C28: execute_workflow(id, ctx) executes the first registered workflow
\* with that id without consulting its is_active flag or its condition, and
\* returns None without executing anything when no registered workflow has
\* that id.
C28_ExecuteByIdUnconditional ==
    ExecutedById =>
        IF WithId = {}
        THEN /\ ret.outcome = "returned_none"
             /\ ret.executed = <<>> /\ ret.trace = <<>> /\ ret.results = <<>>
        ELSE /\ ret.outcome = "returned"
             /\ Len(ret.executed) = 1
             /\ ret.executed[1] \in WithId
             /\ \A i \in WithId : ret.executed[1] <= i
             /\ ret.results[1].workflow_id = ret.workflow_id
             /\ Len(ret.results[1].actions) = Cardinality(ActionsWith(1, {"returns"}))

\* an inactive workflow whose condition is false on the context had its
\* action run through execute_workflow
C28_Witness ==
    /\ ExecutedById
    /\ Len(ret.executed) = 1
    /\ ~RetWorkflow(1).is_active
    /\ RetWorkflow(1).condition # NoCondition
    /\ CallCondition(RetWorkflow(1).condition, ret.context) = "false"
    /\ Len(ret.results[1].actions) = 1

(***************************************************************************)
(* utils/auth_manager.py: SessionManager.  self.sessions maps a token to   *)
(* its session; times are hours, as now is.                                *)
(***************************************************************************)
MaxSessions == 2
\* timedelta(hours=24)
SessionHours == 24
\* secrets.token_urlsafe(32): some token not in use
Tokens == 1..MaxSessions
UserInputs == { "admin", "member" }
NoUser == "None"

\* self.sessions[session_token] = {...}
PutSession(stored, token, session) ==
    [ t \in DOMAIN stored \cup {token} |->
        IF t = token THEN session ELSE stored[t] ]

\* del self.sessions[session_token]
DelSession(stored, token) ==
    [ t \in DOMAIN stored \ {token} |-> stored[t] ]

\* "if datetime.now() > session['expires_at']"
Expired(session, t) ==
    t > session.expires_at

CreateSession(user_data) ==
    /\ \E session_token \in Tokens \ DOMAIN sessions :
        /\ sessions' = PutSession(sessions, session_token,
                          [ user |-> user_data, created_at |-> now,
                            expires_at |-> now + SessionHours ])
        /\ op_ret' = [ op |-> "create_session", token |-> session_token,
                       returned |-> session_token ]
    /\ UNCHANGED <<procs, project_progress, engineVars, reminderVars,
                   notifyVars, calendarVars, builderVars>>

GetSession(session_token) ==
    /\ IF session_token \in DOMAIN sessions
       THEN IF Expired(sessions[session_token], now)
            THEN /\ sessions' = DelSession(sessions, session_token)
                 /\ op_ret' = [ op |-> "get_session", token |-> session_token,
                                returned |-> NoUser ]
            ELSE /\ sessions' = sessions
                 /\ op_ret' = [ op |-> "get_session", token |-> session_token,
                                returned |-> sessions[session_token].user ]
       ELSE /\ sessions' = sessions
            /\ op_ret' = [ op |-> "get_session", token |-> session_token,
                           returned |-> NoUser ]
    /\ UNCHANGED <<procs, project_progress, engineVars, reminderVars,
                   notifyVars, calendarVars, builderVars>>

RefreshSession(session_token) ==
    /\ IF session_token \in DOMAIN sessions
       THEN /\ sessions' = [sessions EXCEPT ![session_token].expires_at =
                               now + SessionHours]
            /\ op_ret' = [ op |-> "refresh_session", token |-> session_token,
                           returned |-> session_token ]
       ELSE /\ sessions' = sessions
            /\ op_ret' = [ op |-> "refresh_session", token |-> session_token,
                           returned |-> NoUser ]
    /\ UNCHANGED <<procs, project_progress, engineVars, reminderVars,
                   notifyVars, calendarVars, builderVars>>

DestroySession(session_token) ==
    /\ IF session_token \in DOMAIN sessions
       THEN /\ sessions' = DelSession(sessions, session_token)
            /\ op_ret' = [ op |-> "destroy_session", token |-> session_token,
                           returned |-> "True" ]
       ELSE /\ sessions' = sessions
            /\ op_ret' = [ op |-> "destroy_session", token |-> session_token,
                           returned |-> "False" ]
    /\ UNCHANGED <<procs, project_progress, engineVars, reminderVars,
                   notifyVars, calendarVars, builderVars>>

NextSession ==
    \/ Tick
    \/ \E user_data \in UserInputs : CreateSession(user_data)
    \/ \E session_token \in Tokens : GetSession(session_token)
    \/ \E session_token \in Tokens : RefreshSession(session_token)
    \/ \E session_token \in Tokens : DestroySession(session_token)

SpecSession == Init /\ [][NextSession]_vars

(***************************************************************************)
(* Properties of sync_from_tasks.                                          *)
(***************************************************************************)
TaskEventsOf(rows, task_id) ==
    { n \in 1..Len(rows) : rows[n].event_type = "task" /\ rows[n].task_id = task_id }
OnePerTask(rows) ==
    \A t \in 1..MaxTasks + 1 : Cardinality(TaskEventsOf(rows, t)) <= 1
\* the call whose insert this step is ran while another call was running
InsertOverlapped ==
    \E p \in ProcIds :
        /\ procs[p].pc = "insert"
        /\ procs'[p] # procs[p]
        /\ ~procs[p].alone

\* C29: sync_from_tasks is idempotent when run sequentially: a second task
\* event for a task is only ever inserted by a call that ran while another
\* call was running; a call that ran alone returns the number of tasks that had
\* no event when it began, leaves every task it read with a due date with
\* an event,
\* and so returns 0 when it follows a call with no task change.  Two
\* interleaved calls can leave two events for one task.
C29_SyncIdempotentSequentially ==
    /\ [][ (OnePerTask(events) /\ ~OnePerTask(events'))
              => InsertOverlapped ]_vars
    /\ []( (op_ret.op = "sync_from_tasks" /\ op_ret.alone) =>
              /\ op_ret.returned = op_ret.unsynced
              /\ Unsynced(op_ret.read, events) = 0 )

\* two events exist for one task, and a call that then ran alone returned 0
C29_Witness ==
    /\ ~OnePerTask(events)
    /\ op_ret.op = "sync_from_tasks"
    /\ op_ret.alone
    /\ op_ret.returned = 0
    /\ op_ret.unsynced = 0
    /\ WithDueDate(op_ret.read) # <<>>

(***************************************************************************)
(* Properties of SessionManager.                                           *)
(***************************************************************************)
\* C30: an expired session can never be used again: a stored session whose
\* expires_at the time has passed stays expired for as long as it is stored,
\* whatever get_session and refresh_session calls are made on its token, and
\* get_session returns the user data only for a stored session with
\* now <= expires_at.
C30_ExpiredNeverUsable ==
    /\ [][ \A t \in DOMAIN sessions :
              (Expired(sessions[t], now) /\ t \in DOMAIN sessions')
                  => Expired(sessions'[t], now') ]_vars
    /\ []( (op_ret.op = "get_session" /\ op_ret.returned # NoUser) =>
              /\ op_ret.token \in DOMAIN sessions
              /\ ~Expired(sessions[op_ret.token], now) )

====
